---- MODULE Spec2Model ----
(***************************************************************************)
(* Model of the day-planner front end (src/front/front/src/App.jsx): the   *)
(* activity list, the run configuration, the construction of the optimize  *)
(* request with its travel-time matrices, and the request life cycle       *)
(* (loading / results).  The optimize service answering the request is     *)
(* modelled from sections 3, 4 and 6 of the specification.                 *)
(*                                                                         *)
(* Number representation.  JavaScript numbers are modelled in fixed point: *)
(*   - a parsed form field or configuration field is an integer number of  *)
(*     hundredths (10 is 1000, 0.5 is 50, 0.25 is 25); NaN is NaN;         *)
(*   - a distance is an integer number of 1/DistScale km;                  *)
(*   - a travel time is an integer number of 1/(DistScale*SpeedLcm) hours, *)
(*     so that distance / speed is exact for the three speeds.             *)
(* A text field is a sequence of one-character strings.                    *)
(***************************************************************************)
EXTENDS Integers, Sequences, FiniteSets, TLC

\* ---------------------------------------------------------------- bounds
MaxActs == 2
ExampleLen == 2
MaxInflight == 2

\* ------------------------------------------------------ number encoding
NaN == -1
DistScale == 100
SpeedLcm == 600
Centi == 100

\* one hour, and one hundredth of an hour, in travel-time units
HourUnits == DistScale * SpeedLcm
CentiUnits == HourUnits \div Centi

Digits == <<"0", "1", "2", "3", "4", "5", "6", "7", "8", "9">>

IsDigit(c) == \E d \in 1..10 : Digits[d] = c

DigitVal(c) == (CHOOSE d \in 1..10 : Digits[d] = c) - 1

RECURSIVE DigitsVal(_, _)
DigitsVal(s, acc) ==
    IF s = <<>> \/ ~IsDigit(Head(s)) THEN acc
    ELSE DigitsVal(Tail(s), acc * 10 + DigitVal(Head(s)))

RECURSIVE DigitRun(_)
DigitRun(s) ==
    IF s = <<>> \/ ~IsDigit(Head(s)) THEN 0 ELSE 1 + DigitRun(Tail(s))

\* parseFloat: the longest decimal prefix of the text, NaN when there is none
ParseFloat(s) ==
    LET ilen == DigitRun(s)
        rest == SubSeq(s, ilen + 1, Len(s))
        hasFrac == rest # <<>> /\ Head(rest) = "."
        frac == IF hasFrac THEN Tail(rest) ELSE <<>>
        flen == DigitRun(frac)
        d1 == IF flen >= 1 THEN DigitVal(frac[1]) ELSE 0
        d2 == IF flen >= 2 THEN DigitVal(frac[2]) ELSE 0
    IN  IF ilen = 0 /\ flen = 0 THEN NaN
        ELSE DigitsVal(s, 0) * Centi + d1 * 10 + d2

\* ------------------------------------------------------------ zone model
ZONES ==
    [Centro |-> [x |-> 0, y |-> 0],
     Norte  |-> [x |-> 0, y |-> 15],
     Sur    |-> [x |-> 0, y |-> -15],
     Este   |-> [x |-> 15, y |-> 0],
     Oeste  |-> [x |-> -15, y |-> 0]]

TRANSPORT_TYPES ==
    [bicicleta          |-> [speed |-> 15],
     auto               |-> [speed |-> 40],
     transporte_publico |-> [speed |-> 25]]

TransportKeys == DOMAIN TRANSPORT_TYPES

RECURSIVE SqrtSearch(_, _, _)
SqrtSearch(x, lo, hi) ==
    IF lo >= hi THEN lo
    ELSE LET mid == (lo + hi + 1) \div 2
         IN  IF mid * mid <= x THEN SqrtSearch(x, mid, hi)
             ELSE SqrtSearch(x, lo, mid - 1)

\* Math.sqrt of a squared distance in km^2, in 1/DistScale km (truncated)
Sqrt(x) == SqrtSearch(x * DistScale * DistScale, 0, (x + 1) * DistScale)

\* mutant: signed coordinate difference instead of the Euclidean distance
calculateTravelTimeSigned(zone1, zone2, transportType) ==
    IF zone1 = zone2 THEN 0
    ELSE LET z1 == ZONES[zone1]
             z2 == ZONES[zone2]
             dx == z1.x - z2.x
             dy == z1.y - z2.y
             distance == (dx + dy) * DistScale
             speed == TRANSPORT_TYPES[transportType].speed
         IN  distance * (SpeedLcm \div speed)

calculateTravelTime(zone1, zone2, transportType) ==
    IF zone1 = zone2 THEN 0
    ELSE LET z1 == ZONES[zone1]
             z2 == ZONES[zone2]
             dx == z1.x - z2.x
             dy == z1.y - z2.y
             distance == Sqrt(dx * dx + dy * dy)
             speed == TRANSPORT_TYPES[transportType].speed
         IN  distance * (SpeedLcm \div speed)

\* ------------------------------------------------------------- the state
VARIABLES
    activities,          \* useState([]): the activity list
    showModal,           \* useState(false)
    newActivity,         \* useState({...}): the form of the modal
    tmax,                \* useState(20): text of the time-budget field
    penalizedTransport,  \* useState('bicicleta')
    alpha,               \* useState(0.25): text of the weight field
    results,             \* useState(null): <<>> is null, <<body>> a response body
    loading,             \* useState(false)
    inflight,            \* optimize requests sent and not yet settled
    answered,            \* history: <<request>> whose response results holds
    lastSettle           \* history: outcome of the most recently settled request

vars == <<activities, showModal, newActivity, tmax, penalizedTransport, alpha,
          results, loading, inflight, answered, lastSettle>>

Null == <<>>

BlankForm ==
    [name |-> "", value |-> <<>>, duration |-> <<>>, open_time |-> <<>>,
     close_time |-> <<>>, zone |-> "Centro"]

\* what the user types into the modal before pressing a button
FormInputs ==
    { [name |-> "Museo", value |-> <<"1", "0">>, duration |-> <<"1">>,
       open_time |-> <<"8">>, close_time |-> <<"1", "0">>, zone |-> "Centro"],
      [name |-> "", value |-> <<"8">>, duration |-> <<"1">>,
       open_time |-> <<"9">>, close_time |-> <<"1", "2">>, zone |-> "Norte"] }

TmaxInputs == { <<>> }
AlphaInputs == { <<"0", ".", "5">> }

Act(id, name, value, duration, open, close, zone) ==
    [id |-> id, name |-> name, value |-> value, duration |-> duration,
     open_time |-> open, close_time |-> close, zone |-> zone]

exampleActivities ==
    << Act(0, "Desayuno", 300, 50, 700, 900, "Centro"),
       Act(1, "Gimnasio", 800, 100, 700, 1100, "Norte"),
       Act(2, "Clases", 1200, 200, 800, 1200, "Centro"),
       Act(3, "Biblioteca", 1000, 200, 900, 1800, "Este"),
       Act(4, "Almuerzo", 500, 100, 1200, 1500, "Centro"),
       Act(5, "Trabajo grupal", 900, 150, 1300, 1700, "Sur"),
       Act(6, "Supermercado", 600, 50, 1000, 2000, "Oeste"),
       Act(7, "Descanso", 400, 100, 1400, 1800, "Norte"),
       Act(8, "Cena", 600, 100, 1900, 2200, "Centro"),
       Act(9, "Recreacion", 700, 150, 1700, 2100, "Sur") >>

sustainabilityActivities ==
    << Act(0, "Yoga matutino", 700, 100, 600, 900, "Norte"),
       Act(1, "Reunion virtual", 1000, 150, 900, 1300, "Centro"),
       Act(2, "Almuerzo saludable", 600, 100, 1200, 1500, "Centro"),
       Act(3, "Taller presencial", 1500, 250, 1400, 1800, "Oeste"),
       Act(4, "Mercado local", 800, 100, 1000, 2000, "Este"),
       Act(5, "Ciclismo recreativo", 900, 150, 1600, 2000, "Sur"),
       Act(6, "Cena con amigos", 800, 200, 1900, 2200, "Norte"),
       Act(7, "Cafe networking", 1100, 100, 1000, 1700, "Este") >>

\* the leading ExampleLen entries of a data set
Leading(s) == SubSeq(s, 1, IF Len(s) < ExampleLen THEN Len(s) ELSE ExampleLen)

Init ==
    /\ activities = <<>>
    /\ showModal = FALSE
    /\ newActivity = BlankForm
    /\ tmax = <<"2", "0">>
    /\ penalizedTransport = "bicicleta"
    /\ alpha = <<"0", ".", "2", "5">>
    /\ results = Null
    /\ loading = FALSE
    /\ inflight = <<>>
    /\ answered = <<>>
    /\ lastSettle = "none"

\* ------------------------------------------------------- the modal form
\* onClick of "Agregar Actividad" (line 249)
OpenModal ==
    /\ ~showModal
    /\ showModal' = TRUE
    /\ UNCHANGED <<activities, newActivity, tmax, penalizedTransport, alpha,
                   results, loading, inflight, answered, lastSettle>>

\* onClick of the overlay or of "Cancelar" (lines 359, 437)
CloseModal ==
    /\ showModal
    /\ showModal' = FALSE
    /\ UNCHANGED <<activities, newActivity, tmax, penalizedTransport, alpha,
                   results, loading, inflight, answered, lastSettle>>

\* the onChange handlers of the form fields (lines 368-429), one form at a time
TypeForm(f) ==
    /\ showModal
    /\ newActivity # f
    /\ newActivity' = f
    /\ UNCHANGED <<activities, showModal, tmax, penalizedTransport, alpha,
                   results, loading, inflight, answered, lastSettle>>

FormIncomplete(f) ==
    \/ f.name = ""
    \/ f.value = <<>>
    \/ f.duration = <<>>
    \/ f.open_time = <<>>
    \/ f.close_time = <<>>
    \/ f.zone = ""

NewId(acts) == Len(acts)

handleAddActivity ==
    /\ showModal
    /\ Len(activities) < MaxActs
    /\ IF FormIncomplete(newActivity)
       THEN UNCHANGED <<activities, newActivity, showModal>>
       ELSE /\ activities' = Append(activities,
                   Act(NewId(activities), newActivity.name,
                       ParseFloat(newActivity.value),
                       ParseFloat(newActivity.duration),
                       ParseFloat(newActivity.open_time),
                       ParseFloat(newActivity.close_time),
                       newActivity.zone))
            /\ newActivity' = BlankForm
            /\ showModal' = FALSE
    /\ UNCHANGED <<tmax, penalizedTransport, alpha, results, loading,
                   inflight, answered, lastSettle>>

RECURSIVE Filter(_, _)
Filter(s, id) ==
    IF s = <<>> THEN <<>>
    ELSE IF Head(s).id # id THEN <<Head(s)>> \o Filter(Tail(s), id)
         ELSE Filter(Tail(s), id)

handleDeleteActivity(id) ==
    /\ activities' = Filter(activities, id)
    /\ UNCHANGED <<showModal, newActivity, tmax, penalizedTransport, alpha,
                   results, loading, inflight, answered, lastSettle>>

handleLoadExampleActivities ==
    /\ activities' = Leading(exampleActivities)
    /\ UNCHANGED <<showModal, newActivity, tmax, penalizedTransport, alpha,
                   results, loading, inflight, answered, lastSettle>>

handleLoadSustainabilityExample ==
    /\ activities' = Leading(sustainabilityActivities)
    /\ UNCHANGED <<showModal, newActivity, tmax, penalizedTransport, alpha,
                   results, loading, inflight, answered, lastSettle>>

\* ---------------------------------------------------- the configuration
setTmax(v) ==
    /\ tmax' = v
    /\ UNCHANGED <<activities, showModal, newActivity, penalizedTransport,
                   alpha, results, loading, inflight, answered, lastSettle>>

setPenalizedTransport(v) ==
    /\ penalizedTransport' = v
    /\ UNCHANGED <<activities, showModal, newActivity, tmax, alpha, results,
                   loading, inflight, answered, lastSettle>>

setAlpha(v) ==
    /\ alpha' = v
    /\ UNCHANGED <<activities, showModal, newActivity, tmax,
                   penalizedTransport, results, loading, inflight, answered,
                   lastSettle>>

\* ------------------------------------------------- building the request
\* one per-mode matrix of handleCalculate (lines 125-142)
TravelMatrix(acts, mode) ==
    [i \in 1..Len(acts) |->
        [j \in 1..Len(acts) |->
            IF i = j THEN 0
            ELSE calculateTravelTime(acts[i].zone, acts[j].zone, mode)]]

Min2(a, b) == IF a <= b THEN a ELSE b

\* mutant: the car matrix left out of the minimum
MathMinWithoutAuto(a, b, c) == Min2(a, c)

MathMin(a, b, c) == Min2(a, Min2(b, c))

\* mutant: Array(n - 1) for the general matrix
CombinedMatrixShort(n, bici, auto, tp) ==
    [i \in 1..(n - 1) |->
        [j \in 1..(n - 1) |->
            IF i = j THEN 0
            ELSE MathMin(bici[i][j], auto[i][j], tp[i][j])]]

\* the general matrix (lines 145-154)
CombinedMatrix(n, bici, auto, tp) ==
    [i \in 1..n |->
        [j \in 1..n |->
            IF i = j THEN 0
            ELSE MathMin(bici[i][j], auto[i][j], tp[i][j])]]

\* mutant: the list's own id kept instead of the index
ReindexedActivitiesKeepId(acts) ==
    [k \in 1..Len(acts) |->
        [id |-> acts[k].id,
         name |-> acts[k].name,
         value |-> acts[k].value,
         duration |-> acts[k].duration,
         open_time |-> acts[k].open_time,
         close_time |-> acts[k].close_time]]

\* activities.map((act, idx) => ...) (lines 157-164); idx is 0-based
ReindexedActivities(acts) ==
    [k \in 1..Len(acts) |->
        [id |-> k - 1,
         name |-> acts[k].name,
         value |-> acts[k].value,
         duration |-> acts[k].duration,
         open_time |-> acts[k].open_time,
         close_time |-> acts[k].close_time]]

RequestBody(acts, pt, tm, al) ==
    LET n == Len(acts)
        travelTimeBicicleta == TravelMatrix(acts, "bicicleta")
        travelTimeAuto == TravelMatrix(acts, "auto")
        travelTimeTransportePublico == TravelMatrix(acts, "transporte_publico")
        travelTime == CombinedMatrix(n, travelTimeBicicleta, travelTimeAuto,
                                     travelTimeTransportePublico)
    IN  [activities |-> ReindexedActivities(acts),
         travel_time |-> travelTime,
         travel_time_bicicleta |-> travelTimeBicicleta,
         travel_time_auto |-> travelTimeAuto,
         travel_time_transporte_publico |-> travelTimeTransportePublico,
         penalized_transport |-> pt,
         tmax |-> ParseFloat(tm),
         alpha |-> ParseFloat(al)]

\* mutant: the button never disabled
CalculateEnabledWhileLoading == Len(activities) > 0

\* mutant: the previous results kept on submission
ResultsOnSubmitKept == results

\* the "Calcular" button is rendered and enabled (lines 298-302)
CalculateEnabled == Len(activities) > 0 /\ ~loading

\* setResults(null) on submission (line 121)
ResultsOnSubmit == Null

handleCalculate ==
    /\ CalculateEnabled
    /\ Len(inflight) < MaxInflight
    /\ loading' = TRUE
    /\ results' = ResultsOnSubmit
    /\ answered' = IF results' = Null THEN <<>> ELSE answered
    /\ inflight' = Append(inflight,
                          RequestBody(activities, penalizedTransport, tmax, alpha))
    /\ UNCHANGED <<activities, showModal, newActivity, tmax,
                   penalizedTransport, alpha, lastSettle>>

\* ------------------------------------------------- the optimize service
\* Sections 3, 4 and 6 of the specification.  Positions are 1-based here;
\* the activity at position k carries request id k - 1.
ToUnits(c) == c * CentiUnits

\* 4.1: structurally invalid activities or configuration are rejected
ValidRequest(req) ==
    /\ req.tmax # NaN /\ req.tmax > 0
    /\ req.alpha # NaN /\ req.alpha >= 0
    /\ \A k \in 1..Len(req.activities) :
          /\ req.activities[k].close_time > req.activities[k].open_time
          /\ req.activities[k].duration > 0

\* 3: an activity longer than its own window is excluded up front
Candidates(req) ==
    { k \in 1..Len(req.activities) :
        req.activities[k].duration
            <= req.activities[k].close_time - req.activities[k].open_time }

DiscouragedMatrix(req) ==
    CASE req.penalized_transport = "bicicleta" -> req.travel_time_bicicleta
      [] req.penalized_transport = "auto" -> req.travel_time_auto
      [] req.penalized_transport = "transporte_publico" ->
             req.travel_time_transporte_publico

EmptySchedule ==
    [route |-> <<>>, t |-> 0, value |-> 0, exposure |-> 0, travel |-> 0]

Visited(s) == { s.route[i] : i \in 1..Len(s.route) }

Max2(a, b) == IF a >= b THEN a ELSE b

Arrival(req, s, q) ==
    IF s.route = <<>> THEN s.t
    ELSE s.t + req.travel_time[s.route[Len(s.route)]][q]

\* mutant: no waiting for the opening time
StartTimeNoWait(req, s, q) == Arrival(req, s, q)

StartTime(req, s, q) ==
    Max2(Arrival(req, s, q), ToUnits(req.activities[q].open_time))

FinishTime(req, s, q) ==
    StartTime(req, s, q) + ToUnits(req.activities[q].duration)

\* mutant: the time budget not checked
LegalWithoutBudget(req, s, q) ==
    /\ q \notin Visited(s)
    /\ FinishTime(req, s, q) <= ToUnits(req.activities[q].close_time)

\* 4.2: the transition is legal only if finish <= close_time and <= time_budget
Legal(req, s, q) ==
    /\ q \notin Visited(s)
    /\ FinishTime(req, s, q) <= ToUnits(req.activities[q].close_time)
    /\ FinishTime(req, s, q) <= ToUnits(req.tmax)

Extend(req, s, q) ==
    [route |-> Append(s.route, q),
     t |-> FinishTime(req, s, q),
     value |-> s.value + req.activities[q].value,
     exposure |-> IF s.route = <<>> THEN s.exposure
                  ELSE s.exposure + DiscouragedMatrix(req)[s.route[Len(s.route)]][q],
     travel |-> IF s.route = <<>> THEN s.travel
                ELSE s.travel + req.travel_time[s.route[Len(s.route)]][q]]

\* value - weight * exposure, in 1/(Centi * HourUnits)
Objective(req, s) == s.value * HourUnits - req.alpha * s.exposure

RECURSIVE SumValues(_, _)
SumValues(req, ks) ==
    IF ks = {} THEN 0
    ELSE LET k == CHOOSE x \in ks : TRUE
         IN  req.activities[k].value + SumValues(req, ks \ {k})

Bound(req, s) ==
    (s.value + SumValues(req, Candidates(req) \ Visited(s))) * HourUnits
        - req.alpha * s.exposure

RECURSIVE LexLess(_, _)
LexLess(a, b) ==
    IF a = <<>> THEN b # <<>>
    ELSE IF b = <<>> THEN FALSE
    ELSE IF Head(a) # Head(b) THEN Head(a) < Head(b)
    ELSE LexLess(Tail(a), Tail(b))

\* tie-break among complete schedules
Better(req, a, b) ==
    \/ Objective(req, a) > Objective(req, b)
    \/ /\ Objective(req, a) = Objective(req, b)
       /\ \/ a.t < b.t
          \/ a.t = b.t /\ LexLess(a.route, b.route)

\* order of the frontier: larger bound first, then fewer activities visited
\* (then the smaller route, to make the pop deterministic)
Before(req, a, b) ==
    \/ Bound(req, a) > Bound(req, b)
    \/ /\ Bound(req, a) = Bound(req, b)
       /\ \/ Len(a.route) < Len(b.route)
          \/ Len(a.route) = Len(b.route) /\ LexLess(a.route, b.route)

Successors(req, s) ==
    { Extend(req, s, q) : q \in { k \in Candidates(req) : Legal(req, s, k) } }

RECURSIVE BestOf(_, _, _)
BestOf(req, ss, best) ==
    IF ss = {} THEN best
    ELSE LET s == CHOOSE x \in ss : TRUE
         IN  BestOf(req, ss \ {s}, IF Better(req, s, best) THEN s ELSE best)

\* 4.2: best-first search; a schedule whose bound is no better than the best
\* schedule found so far is pruned
RECURSIVE Search(_, _, _)
Search(req, frontier, best) ==
    IF frontier = {} THEN best
    ELSE LET s == CHOOSE x \in frontier :
                      \A y \in frontier \ {x} : Before(req, x, y)
             rest == frontier \ {s}
         IN  IF Bound(req, s) <= Objective(req, best)
             THEN Search(req, rest, best)
             ELSE Search(req, rest \cup Successors(req, s),
                         BestOf(req, Successors(req, s), best))

\* 4.3 and 4.4: the response body
ResultBody(req, s) ==
    [total_value |-> s.value,
     total_travel_cost |-> s.travel,
     penalized_travel_cost |-> s.exposure,
     final_time |-> s.t,
     objective |-> Objective(req, s),
     route |-> [i \in 1..Len(s.route) |->
                   [id |-> req.activities[s.route[i]].id,
                    name |-> req.activities[s.route[i]].name,
                    value |-> req.activities[s.route[i]].value,
                    duration |-> req.activities[s.route[i]].duration]]]

Optimize(req) == ResultBody(req, Search(req, {EmptySchedule}, EmptySchedule))

\* ------------------------------------------------- settling the request
Remove(s, i) == SubSeq(s, 1, i - 1) \o SubSeq(s, i + 1, Len(s))

\* response.ok, data = await response.json(), setResults(data) (lines 186-191)
responseOk(i) ==
    /\ i \in 1..Len(inflight)
    /\ ValidRequest(inflight[i])
    /\ results' = <<Optimize(inflight[i])>>
    /\ answered' = <<inflight[i]>>
    /\ loading' = FALSE
    /\ inflight' = Remove(inflight, i)
    /\ lastSettle' = "ok"
    /\ UNCHANGED <<activities, showModal, newActivity, tmax,
                   penalizedTransport, alpha>>

\* !response.ok: throw, catch, finally (lines 186-197)
responseNotOk(i) ==
    /\ i \in 1..Len(inflight)
    /\ ~ValidRequest(inflight[i])
    /\ loading' = FALSE
    /\ inflight' = Remove(inflight, i)
    /\ lastSettle' = "failed"
    /\ UNCHANGED <<activities, showModal, newActivity, tmax,
                   penalizedTransport, alpha, results, answered>>

\* fetch rejects: catch, finally (lines 192-197)
fetchRejects(i) ==
    /\ i \in 1..Len(inflight)
    /\ loading' = FALSE
    /\ inflight' = Remove(inflight, i)
    /\ lastSettle' = "failed"
    /\ UNCHANGED <<activities, showModal, newActivity, tmax,
                   penalizedTransport, alpha, results, answered>>

\* ------------------------------------------------------ specification
Next ==
    \/ OpenModal
    \/ CloseModal
    \/ \E f \in FormInputs : TypeForm(f)
    \/ handleAddActivity
    \/ \E i \in 1..Len(activities) : handleDeleteActivity(activities[i].id)
    \/ handleLoadExampleActivities
    \/ handleLoadSustainabilityExample
    \/ \E v \in TmaxInputs : setTmax(v)
    \/ \E v \in TransportKeys : setPenalizedTransport(v)
    \/ \E v \in AlphaInputs : setAlpha(v)
    \/ handleCalculate
    \/ \E i \in 1..Len(inflight) : responseOk(i)
    \/ \E i \in 1..Len(inflight) : responseNotOk(i)
    \/ \E i \in 1..Len(inflight) : fetchRejects(i)

Spec == Init /\ [][Next]_vars

\* ------------------------------------ the request and its answer alone
\* handleCalculate and the service applied to activity lists entered through
\* the form (ids 0..n-1), over every zone assignment and configuration.
MaxCalcActs == 3

CalcTemplates ==
    << [name |-> "Museo", value |-> 1000, duration |-> 100,
        open_time |-> 800, close_time |-> 1000],
       [name |-> "Siesta", value |-> 500, duration |-> 300,
        open_time |-> 800, close_time |-> 900],
       [name |-> "Parque", value |-> 800, duration |-> 100,
        open_time |-> 900, close_time |-> 1200],
       [name |-> "Cena", value |-> 600, duration |-> 100,
        open_time |-> 900, close_time |-> 1000] >>

CalcList(zs) ==
    [k \in 1..Len(zs) |->
        Act(k - 1, CalcTemplates[k].name, CalcTemplates[k].value,
            CalcTemplates[k].duration, CalcTemplates[k].open_time,
            CalcTemplates[k].close_time, zs[k])]

CalcLists ==
    UNION { { CalcList(zs) : zs \in [1..n -> DOMAIN ZONES] } :
            n \in 1..(IF MaxCalcActs < Len(CalcTemplates) THEN MaxCalcActs
                      ELSE Len(CalcTemplates)) }

CalcTmax == { <<"2", "0">>, <<"9">>, <<"5">>, <<>> }
CalcAlpha == { <<"0", ".", "2", "5">>, <<"0", ".", "5">> }

InitCalc ==
    /\ activities \in CalcLists
    /\ showModal = FALSE
    /\ newActivity = BlankForm
    /\ tmax \in CalcTmax
    /\ penalizedTransport \in TransportKeys
    /\ alpha \in CalcAlpha
    /\ results = Null
    /\ loading = FALSE
    /\ inflight = <<>>
    /\ answered = <<>>
    /\ lastSettle = "none"

NextCalc ==
    \/ handleCalculate
    \/ \E i \in 1..Len(inflight) : responseOk(i)
    \/ \E i \in 1..Len(inflight) : responseNotOk(i)
    \/ \E i \in 1..Len(inflight) : fetchRejects(i)

SpecCalc == InitCalc /\ [][NextCalc]_vars

\* ================================================================ claims
InflightRequests == { inflight[i] : i \in 1..Len(inflight) }

Matrices(r) ==
    { r.travel_time, r.travel_time_bicicleta, r.travel_time_auto,
      r.travel_time_transporte_publico }

ModeMatrices(r) ==
    { r.travel_time_bicicleta, r.travel_time_auto,
      r.travel_time_transporte_publico }

\* C1: for a list of n >= 1 activities, each of the four matrices of the
\* request has exactly n rows of exactly n entries, n being the length of the
\* request's activities array, and a zero diagonal.
C1_SquareZeroDiagonal ==
    \A r \in InflightRequests :
        LET n == Len(r.activities)
        IN  /\ n >= 1
            /\ n = Len(activities)
            /\ \A m \in Matrices(r) :
                  /\ DOMAIN m = 1..n
                  /\ \A i \in 1..n : DOMAIN m[i] = 1..n /\ m[i][i] = 0

C1_Witness ==
    /\ inflight # <<>>
    /\ Len(inflight[1].activities) = 3
    /\ inflight[1].travel_time[1][3] > 0

\* C2: every entry of the combined matrix equals the minimum of the three
\* per-mode entries of the same request.
C2_CombinedIsMinimum ==
    \A r \in InflightRequests :
        \A i \in 1..Len(r.activities) :
            \A j \in 1..Len(r.activities) :
                /\ \A m \in ModeMatrices(r) : r.travel_time[i][j] <= m[i][j]
                /\ \E m \in ModeMatrices(r) : r.travel_time[i][j] = m[i][j]

C2_Witness ==
    /\ inflight # <<>>
    /\ Len(inflight[1].activities) >= 2
    /\ inflight[1].travel_time[1][2] > 0
    /\ inflight[1].travel_time[1][2] < inflight[1].travel_time_bicicleta[1][2]

\* C3: every matrix of the request is symmetric, for every zone assignment
\* of the activities (the lists drawn assign every ordered pair of zones, so
\* entry [1][2] = [2][1] is calculateTravelTime(z1, z2, mode) =
\* calculateTravelTime(z2, z1, mode) for all zones and modes).
C3_Symmetric ==
    \A r \in InflightRequests :
        \A m \in Matrices(r) :
            \A i \in 1..Len(r.activities) :
                \A j \in 1..Len(r.activities) : m[i][j] = m[j][i]

C3_Witness ==
    /\ inflight # <<>>
    /\ Len(activities) >= 2
    /\ activities[1].zone = "Norte"
    /\ activities[2].zone = "Este"
    /\ inflight[1].travel_time_auto[1][2] > 0
    /\ inflight[1].travel_time_auto[1][2] = inflight[1].travel_time_auto[2][1]

\* the request r is the one handleCalculate builds from the list acts
BuiltFrom(r, acts) ==
    /\ Len(r.activities) = Len(acts)
    /\ \A k \in 1..Len(acts) :
          /\ r.activities[k].id = k - 1
          /\ r.activities[k].name = acts[k].name
          /\ r.activities[k].value = acts[k].value
          /\ r.activities[k].duration = acts[k].duration
          /\ r.activities[k].open_time = acts[k].open_time
          /\ r.activities[k].close_time = acts[k].close_time
    /\ \A k \in 1..Len(acts) :
          \A j \in 1..Len(acts) :
              /\ r.travel_time_bicicleta[k][j] =
                    IF k = j THEN 0
                    ELSE calculateTravelTime(acts[k].zone, acts[j].zone, "bicicleta")
              /\ r.travel_time_auto[k][j] =
                    IF k = j THEN 0
                    ELSE calculateTravelTime(acts[k].zone, acts[j].zone, "auto")
              /\ r.travel_time_transporte_publico[k][j] =
                    IF k = j THEN 0
                    ELSE calculateTravelTime(acts[k].zone, acts[j].zone,
                                             "transporte_publico")
              /\ r.travel_time[k][j] =
                    IF k = j THEN 0
                    ELSE Min2(calculateTravelTime(acts[k].zone, acts[j].zone, "bicicleta"),
                         Min2(calculateTravelTime(acts[k].zone, acts[j].zone, "auto"),
                              calculateTravelTime(acts[k].zone, acts[j].zone,
                                                  "transporte_publico")))

\* C4: after any sequence of add, delete and load operations, the request
\* that handleCalculate sends carries ids 0..n-1, the activity with id k is
\* the k-th activity of the list (fields preserved), and row and column k of
\* every matrix come from the zone of that k-th activity.
C4_IdsMatchPositions ==
    [][Len(inflight') > Len(inflight) =>
          BuiltFrom(inflight'[Len(inflight')], activities)]_vars

\* a request in flight that was built from a list whose ids are not 0..n-1
C4_Witness ==
    /\ inflight # <<>>
    /\ Len(activities) = 2
    /\ activities[1].id = 1
    /\ activities[2].id = 1
    /\ activities[1].name # activities[2].name
    /\ BuiltFrom(inflight[1], activities)

\* C5: at most one optimize request is outstanding at any time, loading being
\* true exactly from the submission of a request until it settles.
C5_OneOutstanding ==
    /\ Len(inflight) <= 1
    /\ loading <=> inflight # <<>>

\* a request is outstanding while the button is rendered, and disabled
C5_Witness ==
    /\ Len(inflight) = 1
    /\ loading
    /\ Len(activities) > 0
    /\ activities # Leading(exampleActivities)
    /\ inflight[1].activities[1].name = "Desayuno"

\* the clock after the i-th entry of a returned route, replayed from the
\* request: travel, then waiting for the opening time, then the duration
RoutePos(body, i) == body.route[i].id + 1

RECURSIVE ClockAfter(_, _, _)
ReplayStart(req, body, i) ==
    LET arrival == IF i = 1 THEN 0
                   ELSE ClockAfter(req, body, i - 1)
                        + req.travel_time[RoutePos(body, i - 1)][RoutePos(body, i)]
    IN  Max2(arrival, ToUnits(req.activities[RoutePos(body, i)].open_time))

ClockAfter(req, body, i) ==
    IF i = 0 THEN 0
    ELSE ReplayStart(req, body, i)
         + ToUnits(req.activities[RoutePos(body, i)].duration)

\* C6: every route stored in results has no activity twice, starts each
\* activity at a time >= its open_time and <= its close_time - duration
\* (waiting counted as elapsed time), and ends within the time budget.
C6_ReturnedScheduleFeasible ==
    results # Null =>
        LET body == results[1]
            req == answered[1]
            n == Len(body.route)
        IN  /\ \A i \in 1..n : \A j \in 1..n :
                  i # j => body.route[i].id # body.route[j].id
            /\ \A i \in 1..n :
                  /\ RoutePos(body, i) \in 1..Len(req.activities)
                  /\ ReplayStart(req, body, i)
                        >= ToUnits(req.activities[RoutePos(body, i)].open_time)
                  /\ ReplayStart(req, body, i)
                        <= ToUnits(req.activities[RoutePos(body, i)].close_time
                                   - req.activities[RoutePos(body, i)].duration)
            /\ ClockAfter(req, body, n) <= ToUnits(req.tmax)
            /\ body.final_time = ClockAfter(req, body, n)

\* a returned route of two activities in different zones
C6_Witness ==
    /\ results # Null
    /\ Len(results[1].route) = 2
    /\ results[1].total_travel_cost > 0

\* the request holds exactly the activity of Scenario A
ScenarioA(req) ==
    /\ Len(req.activities) = 1
    /\ req.activities[1].value = 1000
    /\ req.activities[1].duration = 100
    /\ req.activities[1].open_time = 800
    /\ req.activities[1].close_time = 1000
    /\ activities[1].zone = "Centro"

OnlyThatActivity(body) ==
    /\ Len(body.route) = 1
    /\ body.route[1].id = 0
    /\ body.total_value = 1000
    /\ body.total_travel_cost = 0
    /\ body.objective = 1000 * HourUnits

EmptyRoute(body) ==
    /\ body.route = <<>>
    /\ body.total_value = 0
    /\ body.total_travel_cost = 0
    /\ body.objective = 0

C8_UniqueIds ==
    \A i \in 1..Len(activities) :
        \A j \in 1..Len(activities) :
            i # j => activities[i].id # activities[j].id

\* C9: whenever results are displayed, the penalized mode shown with them is
\* the penalized_transport of the request they answer.
C9_ShownModeIsRequestMode ==
    results # Null => penalizedTransport = answered[1].penalized_transport

\* C10: once a failed request has settled, loading is false and results is
\* null; and non-null results are the body of the most recently completed
\* successful response.
C10_FailureLeavesNoResult ==
    /\ (lastSettle = "failed" /\ inflight = <<>>) =>
          (~loading /\ results = Null)
    /\ results # Null =>
          /\ lastSettle = "ok"
          /\ answered # <<>>
          /\ results[1] = Optimize(answered[1])

\* a failure has settled and the button is enabled again
C10_Witness ==
    /\ lastSettle = "failed"
    /\ inflight = <<>>
    /\ ~loading
    /\ results = Null
    /\ Len(activities) > 0

====
